---- MODULE Spec2Model ----
(***************************************************************************)
(* Model of ootd/train.py: the training entry point main(), run by one    *)
(* process per device.  Every process executes main() from its first line *)
(* to dist.destroy_process_group(); the processes meet at the collectives *)
(* (the DDP wrapper's construction and the gradient all-reduce inside     *)
(* backward).  The disk (directories and files) is shared by all          *)
(* processes and survives from one submission of the job to the next.     *)
(***************************************************************************)
EXTENDS Integers, FiniteSets, Sequences, TLC

VARIABLES
    config,         \* the arguments main() was called with (one record per job)
    run,            \* which submission of the job this is (1, 2, ...)
    pc,             \* per process: where in main() it stands (or stood when it raised)
    error,          \* per process: the exception that ended it, or "none"
    dir_seen,       \* per process: result of os.path.exists(output_dir), line 172
    unet_garm,      \* per process: parameters of the garment network
    unet_vton,      \* per process: parameters of the try-on network
    joined,         \* per process: number of collectives it has entered
    global_step,    \* per process: line 379 / 526
    epoch,          \* per process: loop variable of line 389
    step,           \* per process: loop variable of line 395
    opt_steps,      \* per process: optimizer.step() calls made
    vton_fwd,       \* per process: forward passes of unet_vton made (line 486)
    dirs,           \* shared disk: the directories that exist
    files,          \* shared disk: path -> content
    io,             \* history of the operations on shared storage and the logger
    drop_image_embeds,      \* batch["drop_image_embeds"], line 420
    clip_embeds,            \* what clip_image_encoder returned, line 459
    encoder_hidden_states,  \* the conditioning embedding, lines 459-464
    mask_applied,           \* whether lines 462-464 have run on this batch
    launcher,       \* the launcher argument of main(), passed to init_dist (line 160)
    num_gpus,       \* torch.cuda.device_count() on the node, lines 53 / 62
    environ,        \* per process: os.environ, variable name -> value
    local_rank,     \* per process: what init_dist returned, or Unset
    in_group        \* per process: whether dist.init_process_group was entered

procVars == <<pc, error, dir_seen, unet_garm, unet_vton, joined, global_step,
              epoch, step, opt_steps, vton_fwd>>
diskVars == <<dirs, files, io>>
maskVars == <<drop_image_embeds, clip_embeds, encoder_hidden_states, mask_applied>>
launchVars == <<launcher, num_gpus, environ, local_rank, in_group>>
vars == <<config, run, procVars, diskVars, maskVars, launchVars>>

----------------------------------------------------------------------------
(* Bounds of the model *)

MaxTrainSteps == 5      \* largest configured max_train_steps, one process
MaxDistSteps  == 2      \* largest configured max_train_steps, several processes
MaxDatasetLen == 3      \* largest dataset (examples)
MaxGradAccum  == 2      \* largest gradient_accumulation_steps
MaxCkptSteps  == 2      \* largest configured checkpointing_steps
MaxProcs      == 2      \* largest world size
MaxRuns       == 2      \* submissions of the job
MaxBatch      == 2      \* batch size of the masked batch
EmbedDim      == 2      \* feature positions of one embedding
MaxGpus       == 2      \* largest number of devices on a node

----------------------------------------------------------------------------
(* Arithmetic *)

\* math.ceil(a / b) for a >= 0, b > 0
CeilDiv(a, b) == (a + b - 1) \div b

----------------------------------------------------------------------------
(* Model state: parameter name -> value.  Both networks are built by       *)
(* from_pretrained (lines 203-215); a value stands for a tensor.           *)

ParamNames == {"w1", "w2"}

PretrainedGarm == [k \in ParamNames |-> 10]
PretrainedVton == [k \in ParamNames |-> 20]

----------------------------------------------------------------------------
(* Disk.  A path is <<folder, kind, n>> and a folder is <<name, stamp>>:   *)
(* "debug" or the config name followed by the start time (line 170).       *)

NoPath == <<<<"", 0>>, "", 0>>

ExtFolder == <<"pretrained", 0>>

\* Checkpoint files that exist before the first submission.
ExtSubset  == <<ExtFolder, "subset", 0>>    \* bare mapping, strict subset of the names
ExtExtra   == <<ExtFolder, "extra", 0>>     \* bare mapping with a name the model lacks
ExtWrapped == <<ExtFolder, "wrapped", 0>>   \* {"state_dict": ..., "global_step": ...}

ExtFiles ==
    (ExtSubset  :> [w1 |-> 51]) @@
    (ExtExtra   :> [w1 |-> 61, zz |-> 62]) @@
    (ExtWrapped :> [state_dict |-> [w1 |-> 71, w2 |-> 72], global_step |-> 7])

ExtPaths == DOMAIN ExtFiles

\* line 170-171: folder_name, output_dir
output_dir(cfg, n) == IF cfg.is_debug THEN <<"debug", 0>> ELSE <<cfg.name, n>>

SubDirs == {"", "samples", "sanity_check", "checkpoints"}

\* os.path.exists(output_dir)
Exists(ds, folder) == <<folder, "">> \in ds

\* rm -rf output_dir, line 173
RemoveTree(ds, folder) == {d \in ds : d[1] # folder}
RemoveFiles(fs, folder) ==
    [p \in {q \in DOMAIN fs : q[1] # folder} |-> fs[p]]

\* os.makedirs(..., exist_ok=True), lines 189-192
MakeTree(ds, folder) == ds \cup {<<folder, s>> : s \in SubDirs}

\* Writing content c at path p (creates or overwrites)
WriteFile(fs, p, c) == [q \in DOMAIN fs \cup {p} |-> IF q = p THEN c ELSE fs[q]]

CheckpointKinds == {"epoch", "global_step"}

\* The checkpoint files under a folder
CheckpointFiles(fs, folder) ==
    {p \in DOMAIN fs : p[1] = folder /\ p[2] \in CheckpointKinds}

\* All files written by the checkpoint writer
WrittenCheckpoints(fs) == {p \in DOMAIN fs : p[2] \in CheckpointKinds}

----------------------------------------------------------------------------
(* Checkpoint loader, lines 219-237 *)

\* line 223 / 233
StateDictOf(ckpt) ==
    IF "state_dict" \in DOMAIN ckpt THEN ckpt.state_dict ELSE ckpt

\* load_state_dict(strict=False): names of the model the dictionary lacks
MissingKeys(model, sd) == DOMAIN model \ DOMAIN sd

\* Faulty variant: the two key lists taken in the other order ("u, m = ...")
UnexpectedKeysSwapped(model, sd) == DOMAIN model \ DOMAIN sd
\* load_state_dict(strict=False): names of the dictionary the model lacks
UnexpectedKeys(model, sd) == DOMAIN sd \ DOMAIN model

\* load_state_dict(strict=False): the parameters after the load
LoadStateDict(model, sd) ==
    [k \in DOMAIN model |-> IF k \in DOMAIN sd THEN sd[k] ELSE model[k]]

\* One "if unet_*_checkpoint_path != ''" block: torch.load, load, assert.
LoadCheckpoint(model, path, fs) ==
    IF path = NoPath THEN [err |-> "none", model |-> model]
    ELSE IF path \notin DOMAIN fs
         THEN [err |-> "FileNotFoundError", model |-> model]
    ELSE LET sd == StateDictOf(fs[path])
             m  == LoadStateDict(model, sd)
         IN  IF UnexpectedKeys(model, sd) # {}
             THEN [err |-> "AssertionError", model |-> m]
             ELSE [err |-> "none", model |-> m]

----------------------------------------------------------------------------
(* Configuration: the parameters of main(), lines 101-156, and the world   *)
(* size the launcher gives (line 162).                                     *)

PredictionTypes == {"epsilon", "v_prediction", "sample"}

\* <<max_train_steps, max_train_epoch>>; -1 means "not set" (lines 128-129, 323)
TrainStepsChoices ==
    {<<k, -1>> : k \in 1..MaxTrainSteps} \cup {<<-1, 1>>, <<-1, -1>>}

\* <<checkpointing_steps, checkpointing_epochs>> (lines 148-149, 327)
CheckpointingChoices ==
    {<<k, 5>> : k \in 1..MaxCkptSteps} \cup {<<-1, 1>>, <<-1, -1>>}

Config(np, n, ts, ck, gas, pt, wb, dbg, garm, vton) ==
    [ name                        |-> "train",
      num_processes               |-> np,
      dataset_len                 |-> n,
      train_batch_size            |-> 1,
      max_train_steps             |-> ts[1],
      max_train_epoch             |-> ts[2],
      checkpointing_steps         |-> ck[1],
      checkpointing_epochs        |-> ck[2],
      gradient_accumulation_steps |-> gas,
      prediction_type             |-> pt,
      use_wandb                   |-> wb,
      is_debug                    |-> dbg,
      unet_garm_checkpoint_path   |-> garm,
      unet_vton_checkpoint_path   |-> vton ]

\* One process; every training schedule, no checkpoint to load.
ScheduleConfigs ==
    { Config(1, n, ts, ck, gas, pt, wb, dbg, NoPath, NoPath) :
        n \in 1..MaxDatasetLen, ts \in TrainStepsChoices,
        ck \in CheckpointingChoices, gas \in 1..MaxGradAccum,
        pt \in PredictionTypes, wb \in BOOLEAN, dbg \in BOOLEAN }

\* One process; every pair of checkpoints to load, one short schedule.
LoaderConfigs ==
    { Config(1, 1, <<1, -1>>, <<1, 5>>, 1, "epsilon", FALSE, FALSE, garm, vton) :
        garm \in {NoPath} \cup ExtPaths, vton \in {NoPath} \cup ExtPaths }

\* Several processes.
DistConfigs ==
    { Config(np, n, <<ts, -1>>, <<1, 5>>, gas, pt, wb, dbg, NoPath, NoPath) :
        np \in 2..MaxProcs, n \in 2..MaxDatasetLen, ts \in 1..MaxDistSteps,
        gas \in 1..MaxGradAccum, pt \in PredictionTypes,
        wb \in BOOLEAN, dbg \in BOOLEAN }

Ranks == 0..(config.num_processes - 1)

\* Faulty variant: every rank takes itself for the main process
is_main_process_any(r) == r >= 0
\* line 164
is_main_process(r) == r = 0

\* lines 184 and 531: the guard of both wandb calls
WandbEnabled(r) == is_main_process(r) /\ ~config.is_debug /\ config.use_wandb

----------------------------------------------------------------------------
(* Dataset and sampler, lines 299-320 *)

\* Faulty variant: a sampler without padding, the first ranks get the remainder
NumSamplesUnpadded(n, np, r) == (n \div np) + (IF r < n % np THEN 1 ELSE 0)
\* DistributedSampler (drop_last=False): every rank gets ceil(n / num_replicas)
NumSamples(n, np, r) == CeilDiv(n, np)

\* len(train_dataloader) with drop_last=True
len_train_dataloader(r) ==
    NumSamples(config.dataset_len, config.num_processes, r)
        \div config.train_batch_size

----------------------------------------------------------------------------
(* The training schedule, lines 323-329 and 364-366 *)

\* lines 323-325
max_train_steps(r) ==
    IF config.max_train_steps = -1
    THEN config.max_train_epoch * len_train_dataloader(r)
    ELSE config.max_train_steps

\* lines 327-329
checkpointing_steps(r) ==
    IF config.checkpointing_steps = -1
    THEN config.checkpointing_epochs * len_train_dataloader(r)
    ELSE config.checkpointing_steps

\* the asserts of lines 324 and 328
ScheduleAssertsHold ==
    /\ config.max_train_steps = -1 => config.max_train_epoch # -1
    /\ config.checkpointing_steps = -1 => config.checkpointing_epochs # -1

\* line 364
num_update_steps_per_epoch(r) ==
    CeilDiv(len_train_dataloader(r), config.gradient_accumulation_steps)

\* line 366
num_train_epochs(r) ==
    CeilDiv(max_train_steps(r), num_update_steps_per_epoch(r))

\* Faulty variant: "v_prediction" is let through to the forward pass
TargetErrorLenient(pt) ==
    IF pt \in {"epsilon", "v_prediction"} THEN "none" ELSE "ValueError"
\* lines 469-474: the exception the target selection raises, or "none"
TargetError(pt) ==
    IF pt = "epsilon" THEN "none"
    ELSE IF pt = "v_prediction" THEN "NotImplementedError"
    ELSE "ValueError"

\* Faulty variant: the condition of line 535 (commented out in the source),
\* which also saves at the last batch of every epoch
SaveConditionAtEpochEnd(r, gs, st) ==
    is_main_process(r) /\
    (gs % checkpointing_steps(r) = 0 \/ st = len_train_dataloader(r) - 1)
\* line 536
SaveCondition(r, gs, st) ==
    is_main_process(r) /\ gs % checkpointing_steps(r) = 0

\* lines 544-547: the file the checkpoint goes to
save_path(r, gs, ep, st) ==
    IF st = len_train_dataloader(r) - 1
    THEN <<output_dir(config, run), "epoch", ep + 1>>
    ELSE <<output_dir(config, run), "global_step", gs>>

\* Faulty variant: the counter advanced twice in one iteration
global_step_incremented_twice(gs) == gs + 2
\* line 526: global_step += 1
global_step_incremented(gs) == gs + 1

\* lines 257, 500 / 518: the optimizer owns unet_vton's parameters only
OptimizerUpdate(params) == [k \in DOMAIN params |-> params[k] + 1]

----------------------------------------------------------------------------
(* init_dist: the launcher and the environment                            *)

Launchers == {"pytorch", "slurm", "mpi"}
EnvNames == {"RANK", "SLURM_PROCID", "SLURM_NTASKS", "SLURM_NODELIST", "PORT"}

\* local_rank before init_dist has returned
Unset == -1
\* line 49 / 160: port=28888
DefaultPort == 28888
\* value of PORT when the job script exports it
ExportedPort == 29500
\* identifier of the node list SLURM hands to the job
NodeList == 7

\* os.environ of process r when the launcher exported the variables in names
LaunchedEnviron(names, r, np) ==
    [n \in names |-> CASE n = "RANK"           -> r
                      [] n = "SLURM_PROCID"   -> r
                      [] n = "SLURM_NTASKS"   -> np
                      [] n = "SLURM_NODELIST" -> NodeList
                      [] OTHER                -> ExportedPort]

\* Faulty variant: a missing variable reads as 0 instead of raising
environ_lookup_default(env, name) ==
    IF name \in DOMAIN env THEN [err |-> "none", val |-> env[name]]
                           ELSE [err |-> "none", val |-> 0]
\* lines 52, 59-61: os.environ[name], a KeyError when the variable is absent
environ_lookup(env, name) ==
    IF name \in DOMAIN env THEN [err |-> "none", val |-> env[name]]
                           ELSE [err |-> "KeyError", val |-> Unset]

\* line 70: os.environ.get('PORT', port)
environ_get(env, name, default) ==
    IF name \in DOMAIN env THEN env[name] ELSE default

\* lines 66-71: os.environ[name] = value for each name of new
SetEnviron(env, new) ==
    [n \in DOMAIN env \cup DOMAIN new |->
        IF n \in DOMAIN new THEN new[n] ELSE env[n]]

InitDistFailed(env, e) ==
    [err |-> e, local_rank |-> Unset, environ |-> env, in_group |-> FALSE]

\* lines 49-78: what init_dist does on a process whose environment is env
InitDistResult(l, env, gpus) ==
    IF l = "pytorch"
    THEN LET rank == environ_lookup(env, "RANK") IN
         IF rank.err # "none" THEN InitDistFailed(env, rank.err)
         ELSE [err |-> "none", local_rank |-> rank.val % gpus,
               environ |-> env, in_group |-> TRUE]
    ELSE IF l = "slurm"
    THEN LET proc_id   == environ_lookup(env, "SLURM_PROCID")
             ntasks    == environ_lookup(env, "SLURM_NTASKS")
             node_list == environ_lookup(env, "SLURM_NODELIST")
         IN  IF proc_id.err # "none" THEN InitDistFailed(env, proc_id.err)
             ELSE IF ntasks.err # "none" THEN InitDistFailed(env, ntasks.err)
             ELSE IF node_list.err # "none" THEN InitDistFailed(env, node_list.err)
             ELSE [err |-> "none", local_rank |-> proc_id.val % gpus,
                   environ |-> SetEnviron(env,
                       [n \in {"MASTER_ADDR", "WORLD_SIZE", "RANK", "MASTER_PORT"} |->
                           CASE n = "MASTER_ADDR" -> node_list.val
                             [] n = "WORLD_SIZE"  -> ntasks.val
                             [] n = "RANK"        -> proc_id.val
                             [] OTHER -> environ_get(env, "PORT", DefaultPort)]),
                   in_group |-> TRUE]
    ELSE InitDistFailed(env, "NotImplementedError")

----------------------------------------------------------------------------
(* Initial states *)

ProcInit(cfg) ==
    LET rs == 0..(cfg.num_processes - 1) IN
    /\ pc          = [r \in rs |-> "init_dist"]
    /\ local_rank  = [r \in rs |-> Unset]
    /\ in_group    = [r \in rs |-> FALSE]
    /\ error       = [r \in rs |-> "none"]
    /\ dir_seen    = [r \in rs |-> FALSE]
    /\ unet_garm   = [r \in rs |-> PretrainedGarm]
    /\ unet_vton   = [r \in rs |-> PretrainedVton]
    /\ joined      = [r \in rs |-> 0]
    /\ global_step = [r \in rs |-> 0]
    /\ epoch       = [r \in rs |-> 0]
    /\ step        = [r \in rs |-> 0]
    /\ opt_steps   = [r \in rs |-> 0]
    /\ vton_fwd    = [r \in rs |-> 0]

DiskInit ==
    /\ dirs  = {<<ExtFolder, "">>}
    /\ files = ExtFiles
    /\ io    = {}

\* The job as the launcher starts it: the launcher argument, the devices of
\* the node and the variables exported to every process
LaunchInit(cfg, l, names, gpus) ==
    /\ launcher = l
    /\ num_gpus = gpus
    /\ environ  = [r \in 0..(cfg.num_processes - 1) |->
                      LaunchedEnviron(names, r, cfg.num_processes)]

\* torchrun: launcher 'pytorch' with RANK exported, one device per process
TorchrunInit(cfg) == LaunchInit(cfg, "pytorch", {"RANK"}, cfg.num_processes)

MaskIdle ==
    /\ drop_image_embeds     = <<>>
    /\ clip_embeds           = <<>>
    /\ encoder_hidden_states = <<>>
    /\ mask_applied          = FALSE

Init ==
    /\ config \in ScheduleConfigs \cup LoaderConfigs
    /\ run = 1
    /\ ProcInit(config)
    /\ TorchrunInit(config)
    /\ DiskInit
    /\ MaskIdle

InitDist ==
    /\ config \in DistConfigs
    /\ run = 1
    /\ ProcInit(config)
    /\ TorchrunInit(config)
    /\ DiskInit
    /\ MaskIdle

\* A debug job of one or more processes under any launcher argument and any
\* set of exported variables
LaunchConfigs ==
    {Config(np, 2, <<1, -1>>, <<1, 5>>, 1, "epsilon", FALSE, TRUE, NoPath, NoPath) :
        np \in 1..MaxProcs}

InitLaunch ==
    /\ config \in LaunchConfigs
    /\ run = 1
    /\ ProcInit(config)
    /\ \E l \in Launchers, names \in SUBSET EnvNames, gpus \in 1..MaxGpus :
          LaunchInit(config, l, names, gpus)
    /\ DiskInit
    /\ MaskIdle

----------------------------------------------------------------------------
(* Steps of main() on process r *)

Goto(r, label) == pc' = [pc EXCEPT ![r] = label]

\* An uncaught exception ends process r where it stands
Raise(r, e) ==
    /\ error' = [error EXCEPT ![r] = e]
    /\ UNCHANGED pc

\* Process r is running and stands at label
At(r, label) == pc[r] = label /\ error[r] = "none"

IoRecord(r, op, gs) == [run |-> run, rank |-> r, op |-> op, gs |-> gs]

\* A collective completes for r once every process has entered it.
AllJoined(r) == \A q \in Ranks : joined[q] >= joined[r]

\* line 160: local_rank = init_dist(launcher=launcher, port=28888)
init_dist(r) ==
    /\ At(r, "init_dist")
    /\ LET res == InitDistResult(launcher, environ[r], num_gpus) IN
       /\ environ'    = [environ EXCEPT ![r] = res.environ]
       /\ local_rank' = [local_rank EXCEPT ![r] = res.local_rank]
       /\ in_group'   = [in_group EXCEPT ![r] = res.in_group]
       /\ IF res.err # "none"
          THEN Raise(r, res.err)
          ELSE Goto(r, "folder") /\ UNCHANGED error
    /\ UNCHANGED <<launcher, num_gpus, config, run, dir_seen, unet_garm, unet_vton,
                   joined, global_step, epoch, step, opt_steps, vton_fwd,
                   diskVars, maskVars>>

\* dist.init_process_group (lines 56, 72) returns once every process of the
\* job has entered it
GroupFormed == \A q \in Ranks : in_group[q]

\* lines 161-172: rank, folder name and the test of "is_debug and exists"
CheckOutputDir(r) ==
    /\ At(r, "folder")
    /\ GroupFormed
    /\ LET seen == config.is_debug /\ Exists(dirs, output_dir(config, run)) IN
       /\ dir_seen' = [dir_seen EXCEPT ![r] = seen]
       /\ Goto(r, IF seen THEN "rm" ELSE "makedirs")
    /\ UNCHANGED <<launchVars, config, run, error, unet_garm, unet_vton, joined, global_step,
                   epoch, step, opt_steps, vton_fwd, diskVars, maskVars>>

\* line 173: os.system("rm -rf output_dir"), on every process
RemoveOutputDir(r) ==
    /\ At(r, "rm")
    /\ dirs'  = RemoveTree(dirs, output_dir(config, run))
    /\ files' = RemoveFiles(files, output_dir(config, run))
    /\ io'    = io \cup {IoRecord(r, "rm", 0)}
    /\ Goto(r, "makedirs")
    /\ UNCHANGED <<launchVars, config, run, error, dir_seen, unet_garm, unet_vton, joined,
                   global_step, epoch, step, opt_steps, vton_fwd, maskVars>>

\* lines 175-192: wandb.init and the four os.makedirs, on the main process;
\* the other processes skip both "if is_main_process" blocks (to line 197).
MakeOutputDirs(r) ==
    /\ At(r, "makedirs")
    /\ IF ~is_main_process(r)
       THEN /\ Goto(r, "load")
            /\ UNCHANGED <<error, diskVars>>
       ELSE \E init_ok \in (IF WandbEnabled(r) THEN BOOLEAN ELSE {TRUE}) :
            IF ~init_ok
            THEN /\ Raise(r, "WandbError")
                 /\ UNCHANGED diskVars
            ELSE /\ dirs' = MakeTree(dirs, output_dir(config, run))
                 /\ io' = io \cup {IoRecord(r, "makedirs", 0)}
                             \cup (IF WandbEnabled(r)
                                   THEN {IoRecord(r, "wandb_init", 0)} ELSE {})
                 /\ Goto(r, "save_config")
                 /\ UNCHANGED <<error, files>>
    /\ UNCHANGED <<launchVars, config, run, dir_seen, unet_garm, unet_vton, joined,
                   global_step, epoch, step, opt_steps, vton_fwd, maskVars>>

\* line 193: OmegaConf.save(config, output_dir/config.yaml), main process only
SaveConfig(r) ==
    /\ At(r, "save_config")
    /\ IF ~Exists(dirs, output_dir(config, run))
       THEN /\ Raise(r, "FileNotFoundError")
            /\ UNCHANGED diskVars
       ELSE /\ files' = WriteFile(files, <<output_dir(config, run), "config", 0>>,
                                  [yaml |-> config.name])
            /\ io' = io \cup {IoRecord(r, "save_config", 0)}
            /\ Goto(r, "load")
            /\ UNCHANGED <<error, dirs>>
    /\ UNCHANGED <<launchVars, config, run, dir_seen, unet_garm, unet_vton, joined,
                   global_step, epoch, step, opt_steps, vton_fwd, maskVars>>

\* lines 198-237: build both networks, then load the two checkpoints in turn
LoadCheckpoints(r) ==
    /\ At(r, "load")
    /\ LET g == LoadCheckpoint(PretrainedGarm, config.unet_garm_checkpoint_path, files)
           v == LoadCheckpoint(PretrainedVton, config.unet_vton_checkpoint_path, files)
       IN  /\ unet_garm' = [unet_garm EXCEPT ![r] = g.model]
           /\ IF g.err # "none"
              THEN /\ Raise(r, g.err)
                   /\ UNCHANGED unet_vton
              ELSE /\ unet_vton' = [unet_vton EXCEPT ![r] = v.model]
                   /\ IF v.err # "none"
                      THEN Raise(r, v.err)
                      ELSE Goto(r, "ddp") /\ UNCHANGED error
    /\ UNCHANGED <<launchVars, config, run, dir_seen, joined, global_step, epoch, step,
                   opt_steps, vton_fwd, diskVars, maskVars>>

\* lines 239-360: optimizer, dataloader, the schedule's asserts, and the DDP
\* wrappers, whose construction is a collective
WrapDDP(r) ==
    /\ At(r, "ddp")
    /\ IF ~ScheduleAssertsHold
       THEN /\ Raise(r, "AssertionError")
            /\ UNCHANGED joined
       ELSE /\ joined' = [joined EXCEPT ![r] = @ + 1]
            /\ Goto(r, "ddp_sync")
            /\ UNCHANGED error
    /\ UNCHANGED <<launchVars, config, run, dir_seen, unet_garm, unet_vton, global_step,
                   epoch, step, opt_steps, vton_fwd, diskVars, maskVars>>

\* lines 364-392: the schedule, global_step = 0, and entry into the first epoch
BeginTraining(r) ==
    /\ At(r, "ddp_sync")
    /\ AllJoined(r)
    /\ global_step' = [global_step EXCEPT ![r] = 0]
    /\ epoch' = [epoch EXCEPT ![r] = 0]
    /\ step'  = [step EXCEPT ![r] = 0]
    /\ Goto(r, IF 0 < num_train_epochs(r) THEN "batch" ELSE "destroy")
    /\ UNCHANGED <<launchVars, config, run, error, dir_seen, unet_garm, unet_vton, joined,
                   opt_steps, vton_fwd, diskVars, maskVars>>

\* lines 395-494/503: one batch up to backward, where the gradients are
\* all-reduced; the target selection of lines 469-474 comes before the
\* forward pass of unet_vton (line 486)
ForwardBackward(r) ==
    /\ At(r, "batch")
    /\ IF TargetError(config.prediction_type) # "none"
       THEN /\ Raise(r, TargetError(config.prediction_type))
            /\ UNCHANGED <<vton_fwd, joined>>
       ELSE /\ vton_fwd' = [vton_fwd EXCEPT ![r] = @ + 1]
            /\ joined' = [joined EXCEPT ![r] = @ + 1]
            /\ Goto(r, "allreduce")
            /\ UNCHANGED error
    /\ UNCHANGED <<launchVars, config, run, dir_seen, unet_garm, unet_vton, global_step,
                   epoch, step, opt_steps, diskVars, maskVars>>

\* lines 496-603 and the loop headers: optimizer step, global_step += 1,
\* wandb.log, the checkpoint, the break, and the move to the next batch,
\* the next epoch or the end of both loops
OptimizerStep(r) ==
    /\ At(r, "allreduce")
    /\ AllJoined(r)
    /\ LET gs   == global_step_incremented(global_step[r])
           vton == OptimizerUpdate(unet_vton[r])
           save == SaveCondition(r, gs, step[r])
           path == save_path(r, gs, epoch[r], step[r])
           state_dict == [ epoch                |-> epoch[r],
                           global_step          |-> gs,
                           unet_garm_state_dict |-> unet_garm[r],
                           unet_vton_state_dict |-> vton ]
           logged == IF WandbEnabled(r) THEN {IoRecord(r, "wandb_log", gs)} ELSE {}
           last == gs >= max_train_steps(r) \/ step[r] + 1 >= len_train_dataloader(r)
       IN
       /\ unet_vton'   = [unet_vton EXCEPT ![r] = vton]
       /\ opt_steps'   = [opt_steps EXCEPT ![r] = @ + 1]
       /\ global_step' = [global_step EXCEPT ![r] = gs]
       /\ \E log_ok \in (IF WandbEnabled(r) THEN BOOLEAN ELSE {TRUE}) :
          IF ~log_ok
          THEN /\ Raise(r, "WandbError")
               /\ UNCHANGED <<epoch, step, diskVars>>
          ELSE IF save /\ <<output_dir(config, run), "checkpoints">> \notin dirs
          THEN /\ Raise(r, "FileNotFoundError")
               /\ io' = io \cup logged
               /\ UNCHANGED <<epoch, step, dirs, files>>
          ELSE /\ files' = IF save THEN WriteFile(files, path, state_dict) ELSE files
               /\ io' = io \cup logged
                           \cup (IF save THEN {IoRecord(r, "save_ckpt", gs)} ELSE {})
               /\ UNCHANGED <<error, dirs>>
               /\ IF ~last
                  THEN /\ step' = [step EXCEPT ![r] = @ + 1]
                       /\ Goto(r, "batch")
                       /\ UNCHANGED epoch
                  ELSE IF epoch[r] + 1 < num_train_epochs(r)
                  THEN /\ epoch' = [epoch EXCEPT ![r] = @ + 1]
                       /\ step'  = [step EXCEPT ![r] = 0]
                       /\ Goto(r, "batch")
                  ELSE /\ Goto(r, "destroy")
                       /\ UNCHANGED <<epoch, step>>
    /\ UNCHANGED <<launchVars, config, run, dir_seen, unet_garm, joined, vton_fwd, maskVars>>

\* line 605
DestroyProcessGroup(r) ==
    /\ At(r, "destroy")
    /\ Goto(r, "done")
    /\ UNCHANGED <<launchVars, config, run, error, dir_seen, unet_garm, unet_vton, joined,
                   global_step, epoch, step, opt_steps, vton_fwd, diskVars, maskVars>>

\* lines 609-619 run again: the job is submitted once more with the same
\* configuration file, unet_*_checkpoint_path naming checkpoints on disk
Resubmit ==
    /\ run < MaxRuns
    /\ \/ \A r \in Ranks : pc[r] = "done"
       \/ \E r \in Ranks : error[r] # "none"
    /\ \E garm \in WrittenCheckpoints(files),
          vton \in {NoPath} \cup WrittenCheckpoints(files) :
          config' = [config EXCEPT !.unet_garm_checkpoint_path = garm,
                                   !.unet_vton_checkpoint_path = vton]
    /\ run' = run + 1
    /\ pc'          = [r \in Ranks |-> "init_dist"]
    /\ local_rank'  = [r \in Ranks |-> Unset]
    /\ in_group'    = [r \in Ranks |-> FALSE]
    /\ error'       = [r \in Ranks |-> "none"]
    /\ dir_seen'    = [r \in Ranks |-> FALSE]
    /\ unet_garm'   = [r \in Ranks |-> PretrainedGarm]
    /\ unet_vton'   = [r \in Ranks |-> PretrainedVton]
    /\ joined'      = [r \in Ranks |-> 0]
    /\ global_step' = [r \in Ranks |-> 0]
    /\ epoch'       = [r \in Ranks |-> 0]
    /\ step'        = [r \in Ranks |-> 0]
    /\ opt_steps'   = [r \in Ranks |-> 0]
    /\ vton_fwd'    = [r \in Ranks |-> 0]
    /\ UNCHANGED <<launcher, num_gpus, environ, diskVars, maskVars>>

\* One job of several processes: any process takes its next step
NextDist ==
    \/ \E r \in Ranks : init_dist(r)
    \/ \E r \in Ranks : CheckOutputDir(r)
    \/ \E r \in Ranks : RemoveOutputDir(r)
    \/ \E r \in Ranks : MakeOutputDirs(r)
    \/ \E r \in Ranks : SaveConfig(r)
    \/ \E r \in Ranks : LoadCheckpoints(r)
    \/ \E r \in Ranks : WrapDDP(r)
    \/ \E r \in Ranks : BeginTraining(r)
    \/ \E r \in Ranks : ForwardBackward(r)
    \/ \E r \in Ranks : OptimizerStep(r)
    \/ \E r \in Ranks : DestroyProcessGroup(r)

\* The same, and the job may be submitted again
Next ==
    \/ \E r \in Ranks : init_dist(r)
    \/ \E r \in Ranks : CheckOutputDir(r)
    \/ \E r \in Ranks : RemoveOutputDir(r)
    \/ \E r \in Ranks : MakeOutputDirs(r)
    \/ \E r \in Ranks : SaveConfig(r)
    \/ \E r \in Ranks : LoadCheckpoints(r)
    \/ \E r \in Ranks : WrapDDP(r)
    \/ \E r \in Ranks : BeginTraining(r)
    \/ \E r \in Ranks : ForwardBackward(r)
    \/ \E r \in Ranks : OptimizerStep(r)
    \/ \E r \in Ranks : DestroyProcessGroup(r)
    \/ Resubmit

Spec == Init /\ [][Next]_vars

SpecDist == InitDist /\ [][NextDist]_vars

\* One submission under every launcher argument and environment
SpecLaunch == InitLaunch /\ [][NextDist]_vars

----------------------------------------------------------------------------
(* Classifier-free-guidance mask, lines 459-464, on one batch.  The        *)
(* embedding [bs, 1, 768] is kept as bs rows of EmbedDim feature values.   *)

\* Values a per-sample drop indicator may hold
Indicators == {-1, 0, 1, 2}

\* Values of one feature of an embedding
EmbedValues == {0, 3}

\* Faulty variant: "mask = drop_image_embeds != 0"
DropMaskTruthy(drop) == [b \in DOMAIN drop |-> drop[b] # 0]
\* line 462
DropMask(drop) == [b \in DOMAIN drop |-> drop[b] > 0]

\* line 463: unsqueeze(1).unsqueeze(2).expand_as(encoder_hidden_states)
ExpandAs(mask, ehs) ==
    [b \in DOMAIN ehs |-> [d \in DOMAIN ehs[b] |-> mask[b]]]

\* line 464: encoder_hidden_states[mask] = 0
MaskedFill(ehs, mask) ==
    [b \in DOMAIN ehs |->
        [d \in DOMAIN ehs[b] |-> IF mask[b][d] THEN 0 ELSE ehs[b][d]]]

InitMask ==
    /\ config = Config(1, 1, <<1, -1>>, <<1, 5>>, 1, "epsilon", FALSE, FALSE,
                       NoPath, NoPath)
    /\ run = 1
    /\ ProcInit(config)
    /\ TorchrunInit(config)
    /\ DiskInit
    /\ \E bsz \in 1..MaxBatch :
          /\ drop_image_embeds \in [1..bsz -> Indicators]
          /\ clip_embeds \in [1..bsz -> [1..EmbedDim -> EmbedValues]]
    /\ encoder_hidden_states = clip_embeds
    /\ mask_applied = FALSE

\* lines 462-464
ApplyDropMask ==
    /\ ~mask_applied
    /\ drop_image_embeds # <<>>
    /\ encoder_hidden_states' =
          MaskedFill(encoder_hidden_states,
                     ExpandAs(DropMask(drop_image_embeds), encoder_hidden_states))
    /\ mask_applied' = TRUE
    /\ UNCHANGED <<launchVars, config, run, procVars, diskVars, drop_image_embeds, clip_embeds>>

NextMask == ApplyDropMask

SpecMask == InitMask /\ [][NextMask]_vars

----------------------------------------------------------------------------
(* Properties *)

\* The checkpoint records the writer has put under the current output folder
RunCheckpoints == CheckpointFiles(files, output_dir(config, run))

\* The global steps at which the current submission saved a checkpoint
SavedSteps == {rec.gs : rec \in {x \in io : x.op = "save_ckpt" /\ x.run = run}}

\* Process r has executed the checkpoint loader (lines 219-237)
LoaderRan(r) ==
    \/ pc[r] \in {"ddp", "ddp_sync", "batch", "allreduce", "destroy", "done"}
    \/ pc[r] = "load" /\ error[r] # "none"

\* C1: with max_train_steps >= 1 and a non-empty dataloader, for every
\* gradient_accumulation_steps, the loop stops at the first step where
\* global_step reaches max_train_steps: no process is ever past it, and a
\* process whose global_step has reached it processes no further batch.
C1_StopsAtMaxTrainSteps ==
    \A r \in Ranks :
        config.max_train_steps >= 1 =>
            /\ global_step[r] <= config.max_train_steps
            /\ (global_step[r] = config.max_train_steps /\ error[r] = "none")
                   => pc[r] \in {"destroy", "done"}

\* C2: a checkpoint file the checkpoint writer wrote, named as
\* unet_garm_checkpoint_path or unet_vton_checkpoint_path of a later
\* submission and still on disk, is loaded without error.
C2_WrittenCheckpointLoads ==
    \A r \in Ranks :
        (/\ pc[r] = "load"
         /\ config.unet_garm_checkpoint_path \in WrittenCheckpoints(files))
            => error[r] = "none"

\* C3: on the leader (rank 0), every completed training step writes a
\* checkpoint file if and only if the new global_step is an exact multiple of
\* the checkpoint interval, and the record written carries that global_step.
C3_CheckpointIffMultiple ==
    [][ (/\ 0 \in Ranks
         /\ global_step'[0] = global_step[0] + 1
         /\ error'[0] = "none")
          => LET written == {p \in DOMAIN files' :
                                p \notin DOMAIN files \/ files'[p] # files[p]}
             IN  /\ (written # {}) <=> (global_step'[0] % checkpointing_steps(0) = 0)
                 /\ \A p \in written : files'[p].global_step = global_step'[0]
      ]_vars

\* C3 witness (the spec's example, scaled from 100 / 250 to 2 / 5): interval 2
\* and max_train_steps 5: checkpoints after step 2 and step 4, and no other
C3_Witness ==
    /\ pc[0] = "done"
    /\ checkpointing_steps(0) = 2
    /\ config.max_train_steps = 5
    /\ global_step[0] = 5
    /\ SavedSteps = {2, 4}
    /\ Cardinality(RunCheckpoints) = 2

\* What the loader must have done with the checkpoint at path, for a network
\* built with parameters base and since trained for `trained` optimizer steps
LoaderClause(r, model, base, path, trained, loadedLast) ==
    LET sd == StateDictOf(files[path]) IN
    /\ (DOMAIN sd \ ParamNames # {})
          => (pc[r] = "load" /\ error[r] = "AssertionError")
    /\ (DOMAIN sd \subseteq ParamNames /\ DOMAIN sd # ParamNames)
          => /\ loadedLast => ~(pc[r] = "load" /\ error[r] # "none")
             /\ \A k \in ParamNames :
                   model[k] = (IF k \in DOMAIN sd THEN sd[k] ELSE base[k]) + trained

\* C4: a checkpoint whose state dictionary has a key the model lacks makes the
\* loader fail with an assertion error; one whose state dictionary is a strict
\* subset of the model's parameter names loads, overwrites exactly the
\* parameters it names and leaves the others at their pre-load values.
C4_LoaderCompatibility ==
    \A r \in Ranks :
        LoaderRan(r) =>
            LET garm == config.unet_garm_checkpoint_path
                vton == config.unet_vton_checkpoint_path
                garmLoaded ==
                    \/ garm = NoPath
                    \/ /\ garm \in DOMAIN files
                       /\ DOMAIN StateDictOf(files[garm]) \subseteq ParamNames
            IN  /\ (garm # NoPath /\ garm \in DOMAIN files)
                      => LoaderClause(r, unet_garm[r], PretrainedGarm, garm, 0,
                                      vton = NoPath)
                /\ (garmLoaded /\ vton # NoPath /\ vton \in DOMAIN files)
                      => LoaderClause(r, unet_vton[r], PretrainedVton, vton,
                                      opt_steps[r], TRUE)

\* C4 witness: a strict subset was loaded into both networks, the parameter it
\* lacks kept its pretrained value, and training ran to its end
C4_Witness ==
    /\ config.unet_garm_checkpoint_path = ExtSubset
    /\ config.unet_vton_checkpoint_path = ExtSubset
    /\ pc[0] = "done"
    /\ unet_garm[0] = [w1 |-> 51, w2 |-> 10]

\* C5: with a prediction type other than "epsilon" the driver raises before
\* the forward pass of the denoising network: no forward pass, no optimizer
\* step, global_step stays 0 and no checkpoint is written.
C5_UnsupportedPredictionType ==
    \A r \in Ranks :
        config.prediction_type # "epsilon" =>
            /\ vton_fwd[r] = 0
            /\ opt_steps[r] = 0
            /\ global_step[r] = 0
            /\ WrittenCheckpoints(files) = {}
            /\ pc[r] \notin {"allreduce", "destroy", "done"}
            /\ (pc[r] = "batch" /\ error[r] # "none")
                  => error[r] \in {"NotImplementedError", "ValueError"}

\* C5 witness: an unknown prediction type has raised at the first batch
C5_Witness ==
    /\ config.prediction_type = "sample"
    /\ pc[0] = "batch"
    /\ error[0] = "ValueError"

\* C6 (as claimed): the mask zeroes every feature position of exactly the
\* examples whose drop indicator is non-zero, and leaves the others as they were.
C6_MaskZeroesTruthy ==
    mask_applied =>
        \A b \in DOMAIN drop_image_embeds :
            IF drop_image_embeds[b] # 0
            THEN \A d \in 1..EmbedDim : encoder_hidden_states[b][d] = 0
            ELSE encoder_hidden_states[b] = clip_embeds[b]

\* C6 (amended): the mask zeroes every feature position of exactly the examples
\* whose drop indicator is greater than zero, and leaves the others as they were.
C6_MaskZeroesPositive ==
    mask_applied =>
        \A b \in DOMAIN drop_image_embeds :
            IF drop_image_embeds[b] > 0
            THEN \A d \in 1..EmbedDim : encoder_hidden_states[b][d] = 0
            ELSE encoder_hidden_states[b] = clip_embeds[b]

\* C6 witness: a batch with a dropped and a kept example, both non-zero before
C6_Witness ==
    /\ mask_applied
    /\ Len(drop_image_embeds) = 2
    /\ drop_image_embeds[1] = 2
    /\ drop_image_embeds[2] = -1
    /\ clip_embeds[1] = [d \in 1..EmbedDim |-> 3]
    /\ clip_embeds[2] = [d \in 1..EmbedDim |-> 3]
    /\ encoder_hidden_states[1] = [d \in 1..EmbedDim |-> 0]
    /\ encoder_hidden_states[2] = [d \in 1..EmbedDim |-> 3]

\* C7: with checkpointing_steps = 1 on one process, a run with
\* max_train_steps = N that ends normally leaves exactly N checkpoint files,
\* and the last of them records global_step = N.
C7_OneCheckpointPerStep ==
    (/\ config.num_processes = 1
     /\ config.checkpointing_steps = 1
     /\ config.max_train_steps >= 1
     /\ pc[0] = "done")
        => /\ Cardinality(RunCheckpoints) = config.max_train_steps
           /\ \E p \in RunCheckpoints :
                 files[p].global_step = config.max_train_steps
           /\ \A p \in RunCheckpoints :
                 files[p].global_step <= config.max_train_steps

\* C8: a failure of wandb.init or wandb.log does not end the process.
C8_LoggerFailureDoesNotAbort ==
    \A r \in Ranks : error[r] # "WandbError"

FailureFree == \A r \in Ranks : error[r] = "none"

\* C9: in a failure-free run of several processes, the processes waiting at
\* the same gradient all-reduce hold the same global_step, a process that has
\* left the training loop leaves no other process with a step still to
\* synchronize, and all processes end with the same number of steps.
C9_Lockstep ==
    FailureFree =>
        \A p, q \in Ranks :
            /\ (pc[p] = "allreduce" /\ pc[q] = "allreduce" /\ joined[p] = joined[q])
                  => global_step[p] = global_step[q]
            /\ pc[p] \in {"destroy", "done"}
                  => /\ pc[q] \in {"allreduce", "destroy", "done"}
                     /\ joined[q] <= joined[p]
            /\ (pc[p] \in {"destroy", "done"} /\ pc[q] \in {"destroy", "done"})
                  => /\ global_step[p] = global_step[q]
                     /\ opt_steps[p] = opt_steps[q]

\* C9 witness: two processes have both finished a run of two steps
C9_Witness ==
    /\ config.num_processes >= 2
    /\ FailureFree
    /\ \A r \in Ranks : pc[r] = "done" /\ global_step[r] = 2

WriteOps == {"makedirs", "save_config", "save_ckpt", "wandb_init", "wandb_log"}

\* C10: every write to shared storage (output directories, the configuration
\* copy, checkpoint files, experiment-log emissions) is made by rank 0.
C10_OnlyLeaderWrites ==
    \A rec \in io : rec.op \in WriteOps => rec.rank = 0

\* C10 witness: in a job of several processes every kind of write has happened
\* and another rank has trained alongside
C10_Witness ==
    /\ config.num_processes >= 2
    /\ \A op \in WriteOps : \E rec \in io : rec.op = op
    /\ \E r \in Ranks : r # 0 /\ global_step[r] >= 1

\* C11: global_step starts at 0, goes up by exactly 1 with each batch whose
\* optimizer step completed, is changed by nothing else (epoch boundaries,
\* checkpoint writes, logging) and never goes down while the process runs.
C11_GlobalStepCountsBatches ==
    [][ run' = run =>
          \A r \in Ranks :
              /\ global_step[r] = opt_steps[r]
              /\ \/ /\ global_step'[r] = global_step[r]
                    /\ opt_steps'[r] = opt_steps[r]
                 \/ /\ global_step'[r] = global_step[r] + 1
                    /\ opt_steps'[r] = opt_steps[r] + 1
                    /\ pc[r] = "allreduce"
      ]_vars

\* C11 witness: three batches over two epochs, with checkpoints written and
\* losses logged on the way, and global_step is 3
C11_Witness ==
    /\ pc[0] = "done"
    /\ global_step[0] = 3
    /\ opt_steps[0] = 3
    /\ epoch[0] = 1
    /\ SavedSteps # {}
    /\ \E rec \in io : rec.op = "wandb_log" /\ rec.gs = 3

\* C12: init_dist fails fatally, without joining a process group and without
\* a fallback rank, when the launcher is neither 'pytorch' nor 'slurm', or when
\* a variable it requires is absent from the environment (RANK for 'pytorch';
\* SLURM_PROCID, SLURM_NTASKS and SLURM_NODELIST for 'slurm').
RequiredEnv(l) ==
    IF l = "pytorch" THEN {"RANK"}
    ELSE {"SLURM_PROCID", "SLURM_NTASKS", "SLURM_NODELIST"}

C12_InitDistFailsFatally ==
    \A r \in Ranks :
        /\ launcher \notin {"pytorch", "slurm"} =>
              /\ pc[r] = "init_dist" /\ ~in_group[r] /\ local_rank[r] = Unset
              /\ error[r] \in {"none", "NotImplementedError"}
        /\ (/\ launcher \in {"pytorch", "slurm"}
            /\ ~(RequiredEnv(launcher) \subseteq DOMAIN environ[r])) =>
              /\ pc[r] = "init_dist" /\ ~in_group[r] /\ local_rank[r] = Unset
              /\ error[r] \in {"none", "KeyError"}
        /\ in_group[r] =>
              /\ launcher \in {"pytorch", "slurm"}
              /\ local_rank[r] = r % num_gpus

C12_Witness ==
    /\ launcher = "slurm"
    /\ DOMAIN environ[0] = {"SLURM_PROCID", "SLURM_NODELIST", "RANK"}
    /\ error[0] = "KeyError" /\ pc[0] = "init_dist"
    /\ ~in_group[0] /\ local_rank[0] = Unset

\* C13: each of the two networks is changed in place by the optimizer at every
\* training step, so a run that starts from the pretrained weights has moved
\* both networks after its first step, and the garment network's state
\* dictionary in every checkpoint it writes differs from the pretrained one.
C13_BothNetworksTrained ==
    (run = 1 /\ config.unet_garm_checkpoint_path = NoPath
             /\ config.unet_vton_checkpoint_path = NoPath) =>
        /\ \A r \in Ranks :
              opt_steps[r] >= 1 =>
                  /\ unet_vton[r] # PretrainedVton
                  /\ unet_garm[r] # PretrainedGarm
        /\ \A path \in RunCheckpoints :
              /\ files[path].unet_vton_state_dict # PretrainedVton
              /\ files[path].unet_garm_state_dict # PretrainedGarm

\* C14: in debug mode with two or more processes, under every interleaving
\* of the startup steps, the output directory tree the leader created
\* (checkpoints/ included) exists from then on -- when the leader saves the
\* configuration copy and when it writes a checkpoint -- and the leader never
\* fails for want of it.
LeaderMadeTree ==
    \E rec \in io : rec.op = "makedirs" /\ rec.run = run /\ rec.rank = 0

C14_LeaderTreeSurvives ==
    (config.is_debug /\ config.num_processes >= 2 /\ LeaderMadeTree) =>
        /\ Exists(dirs, output_dir(config, run))
        /\ <<output_dir(config, run), "checkpoints">> \in dirs
        /\ error[0] # "FileNotFoundError"

====
